---------------------------- MODULE Spec2Model ----------------------------
(***************************************************************************)
(* A model of the MathParser expression evaluator (src/Parser.hpp) and of  *)
(* the way its host (src/Source.cpp) drives it.                            *)
(*                                                                         *)
(* Texts (input lines, tokens, symbols) are TLA+ strings, read one         *)
(* character at a time with SubSeq.  The cursor m_Input is a 1-based index *)
(* into the input buffer; index Len(buf)+1 is the terminating NUL.         *)
(*                                                                         *)
(* Numbers (long double) are exact rationals [n, d] inside a window of     *)
(* MaxExact; a value that leaves the window, or that comes out of a <cmath>*)
(* function with no exact result, is kept as an unevaluated term           *)
(* [f, a].  Both shapes are one record type, Value.                        *)
(***************************************************************************)
EXTENDS Integers, Sequences, FiniteSets

VARIABLES
    TOKENS,      \* std::list<std::string_view>: the token-matching list
    CONSTANTS_,  \* CONSTANTS: symbol -> numeric text
    FUNCTIONS,   \* symbol -> one-argument handler
    OPERATORS,   \* symbol -> two-argument handler
    m_State,     \* Parser::State
    m_Input,     \* the cursor; between calls only "uninitialized" or "nullptr"
    m_Radians,   \* angle mode of the last call
    pool,        \* the input lines the host may pass to Get in this run
    argOrder,    \* the build's order of evaluating a call's two arguments
    input,       \* argument of the most recent Get ("" before the first)
    result,      \* value returned by the most recent Get
    crash,       \* "none", or how the process died
    trace,       \* what the most recent Get did (rewinds, rejections, depth)
    first,       \* outcome of the first Get since the registry last changed
    adds         \* number of registration calls made

vars == <<TOKENS, CONSTANTS_, FUNCTIONS, OPERATORS, m_State, m_Input, m_Radians,
          pool, argOrder, input, result, crash, trace, first, adds>>

registry == <<TOKENS, CONSTANTS_, FUNCTIONS, OPERATORS>>

-----------------------------------------------------------------------------
(* Bounds of the model *)

\* Call-stack frames available to the recursive-descent parser.
MaxDepth == 16

\* Registration calls (AddOperator / AddFunction / AddConstant) per run.
MaxAdds == 2

\* Largest single-digit numeral used when operands are enumerated.
MaxNum == 2

\* Window inside which arithmetic is carried out exactly.
MaxExact == 100000000

-----------------------------------------------------------------------------
(* Characters *)

Digits == <<"0", "1", "2", "3", "4", "5", "6", "7", "8", "9">>

Upper ==
    <<"A", "B", "C", "D", "E", "F", "G", "H", "I", "J", "K", "L", "M", "N", "O", "P", "Q",
      "R", "S", "T", "U", "V", "W", "X", "Y", "Z">>

Lower ==
    <<"a", "b", "c", "d", "e", "f", "g", "h", "i", "j", "k", "l", "m", "n", "o", "p", "q",
      "r", "s", "t", "u", "v", "w", "x", "y", "z">>

DigitSet == {Digits[i] : i \in 1..10}

UpperSet == {Upper[i] : i \in 1..26}

\* The character at index i of s; "" stands for the terminating NUL.
CharAt(s, i) == IF i >= 1 /\ i <= Len(s) THEN SubSeq(s, i, i) ELSE ""

IsDigit(c) == c \in DigitSet

IsSpace(c) == c \in {" ", "\t", "\n", "\r", "\f"}

DigitVal(c) == (CHOOSE i \in 1..10 : Digits[i] = c) - 1

\* tolower under isalpha: only the upper-case letters change.
ToLowerChar(c) ==
    IF c \in UpperSet THEN Lower[CHOOSE i \in 1..26 : Upper[i] = c] ELSE c

RECURSIVE ToLowerStr(_)
ToLowerStr(s) ==
    IF s = "" THEN "" ELSE ToLowerChar(SubSeq(s, 1, 1)) \o ToLowerStr(SubSeq(s, 2, Len(s)))

-----------------------------------------------------------------------------
(* Values: the long double domain *)

Abs(x) == IF x < 0 THEN -x ELSE x

RECURSIVE Gcd(_, _)
Gcd(a, b) == IF b = 0 THEN a ELSE Gcd(b, a % b)

\* |a * b| stays inside the exact window.
Fits(a, b) == a = 0 \/ b = 0 \/ Abs(a) <= MaxExact \div Abs(b)

Num(n, d) ==
    LET g == Gcd(Abs(n), d)
    IN  [f |-> "num", a |-> <<>>, n |-> n \div g, d |-> d \div g]

Term(f, a) == [f |-> f, a |-> a, n |-> 0, d |-> 1]

IsNum(v) == v.f = "num"

IsInt(v) == IsNum(v) /\ v.d = 1

\* What an expression with undefined behaviour evaluates to when the process survives.
Garbage == Term("indeterminate", <<>>)

\* No call has returned yet.
NoValue == Term("none", <<>>)

\* (long int)v: truncation toward zero.
Trunc(v) == IF v.n >= 0 THEN v.n \div v.d ELSE -((-v.n) \div v.d)

RECURSIVE Pow10(_)
Pow10(k) == IF k = 0 THEN 1 ELSE 10 * Pow10(k - 1)

\* base^k for an integer k >= 0 as <<fits, value>>, multiplying only inside the window.
RECURSIVE IntPow(_, _)
IntPow(base, k) ==
    IF k = 0 THEN <<TRUE, 1>>
    ELSE LET r == IntPow(base, k - 1)
         IN  IF r[1] /\ Fits(r[2], base) THEN <<TRUE, r[2] * base>> ELSE <<FALSE, 0>>

RECURSIVE Fact(_)
Fact(k) == IF k <= 1 THEN 1 ELSE k * Fact(k - 1)

Add(x, y) ==
    IF IsNum(x) /\ IsNum(y) /\ Fits(x.n, y.d) /\ Fits(y.n, x.d) /\ Fits(x.d, y.d)
       /\ Abs(x.n * y.d) + Abs(y.n * x.d) <= MaxExact
    THEN Num(x.n * y.d + y.n * x.d, x.d * y.d)
    ELSE Term("+", <<x, y>>)

Sub(x, y) ==
    IF IsNum(x) /\ IsNum(y) /\ Fits(x.n, y.d) /\ Fits(y.n, x.d) /\ Fits(x.d, y.d)
       /\ Abs(x.n * y.d) + Abs(y.n * x.d) <= MaxExact
    THEN Num(x.n * y.d - y.n * x.d, x.d * y.d)
    ELSE Term("-", <<x, y>>)

Mul(x, y) ==
    IF IsNum(x) /\ IsNum(y) /\ Fits(x.n, y.n) /\ Fits(x.d, y.d)
    THEN Num(x.n * y.n, x.d * y.d)
    ELSE Term("*", <<x, y>>)

\* x / 0 is an infinity or a NaN of the floating type: kept as a term.
Div(x, y) ==
    IF IsNum(x) /\ IsNum(y) /\ y.n # 0 /\ Fits(x.n, y.d) /\ Fits(x.d, y.n)
    THEN Num((IF y.n < 0 THEN -1 ELSE 1) * x.n * y.d, x.d * Abs(y.n))
    ELSE Term("/", <<x, y>>)

\* pow(x, y): exact for an integer exponent y >= 0.
Pow(x, y) ==
    IF IsNum(x) /\ IsInt(y) /\ y.n >= 0 /\ y.n <= 32
       /\ IntPow(Abs(x.n), y.n)[1] /\ IntPow(x.d, y.n)[1]
    THEN Num((IF x.n < 0 /\ y.n % 2 = 1 THEN -1 ELSE 1) * IntPow(Abs(x.n), y.n)[2],
             IntPow(x.d, y.n)[2])
    ELSE Term("^", <<x, y>>)

\* (long int)x % (long int)y is undefined when (long int)y is 0.
ModUndefined(x, y) == IsNum(y) /\ Trunc(y) = 0

\* The remainder takes the sign of the dividend.
Mod(x, y) ==
    IF IsNum(x) /\ IsNum(y) /\ Trunc(y) # 0
    THEN LET tx == Trunc(x)
             ty == Abs(Trunc(y))
         IN  Num(IF tx >= 0 THEN tx % ty ELSE -((-tx) % ty), 1)
    ELSE IF ModUndefined(x, y) THEN Garbage ELSE Term("%", <<x, y>>)

Neg(x) == IF IsNum(x) THEN Num(-x.n, x.d) ELSE Term("neg", <<x>>)

\* tgamma(x + 1): the factorial on the small naturals.
Gamma1(x) ==
    IF IsInt(x) /\ x.n >= 0 /\ x.n <= 10 THEN Num(Fact(x.n), 1) ELSE Term("tgamma1", <<x>>)

-----------------------------------------------------------------------------
(* Conversions between numbers and their text *)

\* Index of the first character at or after i that is not a digit.
RECURSIVE DigitsEnd(_, _)
DigitsEnd(s, i) == IF IsDigit(CharAt(s, i)) THEN DigitsEnd(s, i + 1) ELSE i

\* The natural number written by the digit string s ("" is 0).
RECURSIVE DigitsVal(_)
DigitsVal(s) ==
    IF s = "" THEN 0
    ELSE 10 * DigitsVal(SubSeq(s, 1, Len(s) - 1)) + DigitVal(SubSeq(s, Len(s), Len(s)))

\* std::stold on a text that starts with a digit: the longest prefix of the
\* shape digits [ '.' digits ] is converted, what follows it is ignored.
StoLD(token) ==
    LET ie == DigitsEnd(token, 1)
        fe == IF CharAt(token, ie) = "." THEN DigitsEnd(token, ie + 1) ELSE ie
        ip == SubSeq(token, 1, ie - 1)
        fp == SubSeq(token, ie + 1, fe - 1)
    IN  IF Len(ip) + Len(fp) > 8 THEN Term("stold", <<>>)
        ELSE Num(DigitsVal(ip) * Pow10(Len(fp)) + DigitsVal(fp), Pow10(Len(fp)))

\* The decimal digits of a natural number.
RECURSIVE NatStr(_)
NatStr(k) ==
    IF k < 10 THEN Digits[k + 1] ELSE NatStr(k \div 10) \o Digits[(k % 10) + 1]

\* The first k digits after the point of rem / d (rem < d), as <<digits, remainder>>.
RECURSIVE FractionDigits(_, _, _)
FractionDigits(rem, d, k) ==
    IF k = 0 THEN <<0, rem>>
    ELSE LET r == FractionDigits(rem, d, k - 1)
         IN  <<r[1] * 10 + (r[2] * 10) \div d, (r[2] * 10) % d>>

\* std::to_string of a floating value: "%f", six digits after the point, rounded.
ToString(v) ==
    LET fd == FractionDigits(Abs(v.n) % v.d, v.d, 6)
        up == IF 2 * fd[2] >= v.d THEN 1 ELSE 0
        scaled == (Abs(v.n) \div v.d) * 1000000 + fd[1] + up
        fr == NatStr(scaled % 1000000)
        txt == NatStr(scaled \div 1000000) \o "." \o SubSeq("00000", 1, 6 - Len(fr)) \o fr
    IN  IF v.n < 0 THEN "-" \o txt ELSE txt

-----------------------------------------------------------------------------
(* The registry as the constructor leaves it *)

InitialTokens ==
    <<"+", "-", "^", "*", "/", "%", "(", ")", "!", "e", "lg", "ln", "pi", "abs", "sin",
      "cos", "tan", "sqrt", "asin", "acos", "atan", "log2">>

\* std::numbers::pi and std::numbers::e as doubles, to six decimals.
Pi == Num(3141593, 1000000)

Euler == Num(2718282, 1000000)

InitialConstants == [s \in {"pi", "e"} |-> IF s = "pi" THEN ToString(Pi) ELSE ToString(Euler)]

\* A built-in handler is named by its symbol.
InitialFunctions ==
    [s \in {"+", "-", "abs", "log2", "lg", "ln", "sin", "cos", "tan", "asin", "acos",
            "atan", "sqrt", "!"} |-> s]

InitialOperators == [s \in {"+", "-", "*", "/", "^", "%"} |-> s]

States ==
    {"Ok", "InvalidSyntax", "UnknownBinaryOperator", "UnknownUnaryOperator",
     "UnknownExpressionType"}

\* The one-argument handlers; a handler registered by the host is opaque.
ApplyFunction(h, radians, x) ==
    CASE h = "+" -> x
      [] h = "-" -> Neg(x)
      [] h = "!" -> Gamma1(x)
      [] h \in {"sin", "cos", "tan"} ->
            IF radians THEN Term(h, <<x>>) ELSE Term(h, <<Term("deg2rad", <<x>>)>>)
      [] h \in {"asin", "acos", "atan"} ->
            IF radians THEN Term(h, <<x>>) ELSE Term("rad2deg", <<Term(h, <<x>>)>>)
      [] OTHER -> Term(h, <<x>>)

\* The two-argument handlers.
ApplyOperator(h, x, y) ==
    CASE h = "+" -> Add(x, y)
      [] h = "-" -> Sub(x, y)
      [] h = "*" -> Mul(x, y)
      [] h = "/" -> Div(x, y)
      [] h = "^" -> Pow(x, y)
      [] h = "%" -> Mod(x, y)
      [] OTHER -> Term(h, <<x, y>>)

\* The handler's call has undefined behaviour.
OperatorUndefined(h, x, y) == h = "%" /\ ModUndefined(x, y)

GetPriority(binaryOp) ==
    IF binaryOp = "+" THEN 1
    ELSE IF binaryOp = "-" THEN 1
    ELSE IF binaryOp = "*" THEN 2
    ELSE IF binaryOp = "/" THEN 2
    ELSE IF binaryOp = "%" THEN 3
    ELSE IF binaryOp = "^" THEN 3
    ELSE 0

-----------------------------------------------------------------------------
(* Expression *)

Leaf(token) == [token |-> token, arguments |-> <<>>]

Unary(token, rhs) == [token |-> token, arguments |-> <<rhs>>]

Binary(token, lhs, rhs) == [token |-> token, arguments |-> <<lhs, rhs>>]

-----------------------------------------------------------------------------
(* The tokenizer *)

\* The parser's fields while a Get call runs, with a record of what the call did:
\*   rewinds   the un-consume steps, each with the peeked lexeme's first index
\*   rejected  ParseToken set InvalidSyntax at least once
\*   depth     the deepest call-stack frame entered
StartOfCall(state) ==
    [m_Input |-> 1, m_State |-> state, crash |-> "none",
     rewinds |-> {}, rejected |-> FALSE, depth |-> 0]

RECURSIVE SkipSpaces(_, _)
SkipSpaces(buf, i) == IF IsSpace(CharAt(buf, i)) THEN SkipSpaces(buf, i + 1) ELSE i

\* Index after the run of digits and points that starts at i.
RECURSIVE NumberEnd(_, _)
NumberEnd(buf, i) ==
    IF IsDigit(CharAt(buf, i)) \/ CharAt(buf, i) = "." THEN NumberEnd(buf, i + 1) ELSE i

\* strncmp(m_Input, t, length(t)) = 0: the buffer holds t at index i.
StartsWith(buf, i, t) == i + Len(t) - 1 <= Len(buf) /\ SubSeq(buf, i, i + Len(t) - 1) = t

\* The scan from the list's last entry backward stops at the first entry that
\* matches at i: the matching entry of the greatest index, or 0 when none matches.
ScanTokens(tokens, buf, i) ==
    IF \E k \in 1..Len(tokens) : StartsWith(buf, i, tokens[k])
    THEN CHOOSE k \in 1..Len(tokens) :
            /\ StartsWith(buf, i, tokens[k])
            /\ \A j \in (k + 1)..Len(tokens) : ~StartsWith(buf, i, tokens[j])
    ELSE 0

\* The token ParseToken returns: the bool, the text, the index of the lexeme's
\* first character, and the parser's fields afterwards.
Token(isNumber, token, start, p) ==
    [isNumber |-> isNumber, token |-> token, start |-> start, p |-> p]

\* The digit branch: the run of digits and points from s up to e.
NumberToken(ctx, p, s, e) ==
    IF CharAt(ctx.buf, e - 1) = "."
    THEN Token(TRUE, SubSeq(ctx.buf, s, e - 1), s,
               [p EXCEPT !.m_Input = e, !.m_State = "InvalidSyntax", !.rejected = TRUE])
    ELSE Token(TRUE, SubSeq(ctx.buf, s, e - 1), s, [p EXCEPT !.m_Input = e])

\* The scan's result: entry k of the list matched at s, or none did (k = 0).
SymbolToken(ctx, p, s, k) ==
    IF k = 0
    THEN Token(FALSE, "", s,
               [p EXCEPT !.m_Input = s, !.m_State = "InvalidSyntax", !.rejected = TRUE])
    ELSE IF ctx.TOKENS[k] \in DOMAIN ctx.CONSTANTS_
    THEN Token(TRUE, ctx.CONSTANTS_[ctx.TOKENS[k]], s,
               [p EXCEPT !.m_Input = s + Len(ctx.TOKENS[k])])
    ELSE Token(FALSE, ctx.TOKENS[k], s, [p EXCEPT !.m_Input = s + Len(ctx.TOKENS[k])])

\* ParseToken once the white space is skipped and the cursor is at s.
TokenAt(ctx, p, s) ==
    IF CharAt(ctx.buf, s) = "" THEN Token(FALSE, "", s, [p EXCEPT !.m_Input = s])
    ELSE IF IsDigit(CharAt(ctx.buf, s)) THEN NumberToken(ctx, p, s, NumberEnd(ctx.buf, s))
    ELSE SymbolToken(ctx, p, s, ScanTokens(ctx.TOKENS, ctx.buf, s))

\* Parser::ParseToken.  ctx holds the buffer and the registry's lists.  With the
\* cursor outside the buffer the first read is undefined.
ParseToken(ctx, p) ==
    IF p.m_Input < 1 \/ p.m_Input > Len(ctx.buf) + 1
    THEN Token(FALSE, "", p.m_Input, [p EXCEPT !.crash = "OutOfBounds"])
    ELSE TokenAt(ctx, p, SkipSpaces(ctx.buf, p.m_Input))

\* m_Input -= op.size(), for the token t that was just peeked.
Rewind(t) ==
    [t.p EXCEPT !.m_Input = t.p.m_Input - Len(t.token),
                !.rewinds = @ \cup {[start |-> t.start, token |-> t.token,
                                     after |-> t.p.m_Input - Len(t.token)]}]

-----------------------------------------------------------------------------
(* The parser *)

Enter(p, depth) == [p EXCEPT !.depth = IF depth > @ THEN depth ELSE @]

\* What a parsing procedure returns: the tree and the parser's fields.
Parsed(expr, p) == [expr |-> expr, p |-> p]

\* The call stack is exhausted.
Overflow(p) == Parsed(Leaf(""), [p EXCEPT !.crash = "StackOverflow"])

\* priority < minPriority: the comparison a right-associating loop would make.
StopsBelow(priority, minPriority) == priority < minPriority

\* priority <= minPriority: the peeked token ends this expression.
Stops(priority, minPriority) == priority <= minPriority

RECURSIVE ParseSimpleExpression(_, _, _)
RECURSIVE ParseBinaryExpression(_, _, _, _)
RECURSIVE BinaryLoop(_, _, _, _, _)

\* After "(" and the expression r inside it: t2 must be ")".
ExpectClose(r, t2) ==
    IF t2.p.crash # "none" THEN Parsed(Leaf(""), t2.p)
    ELSE IF t2.token # ")" THEN Parsed(Leaf(""), [t2.p EXCEPT !.m_State = "InvalidSyntax"])
    ELSE Parsed(r.expr, t2.p)

Grouped(ctx, r) == IF r.p.crash # "none" THEN r ELSE ExpectClose(r, ParseToken(ctx, r.p))

\* Expression(token, ParseSimpleExpression()): r is the operand parsed.
Prefixed(token, r) == IF r.p.crash # "none" THEN r ELSE Parsed(Unary(token, r.expr), r.p)

\* ParseSimpleExpression once its token t is read.
SimpleAfter(ctx, t, depth) ==
    IF t.p.crash # "none" THEN Parsed(Leaf(""), t.p)
    ELSE IF t.p.m_State # "Ok" THEN Parsed(Leaf(""), t.p)
    ELSE IF t.isNumber THEN Parsed(Leaf(t.token), t.p)
    ELSE IF t.token = "(" THEN Grouped(ctx, ParseBinaryExpression(ctx, t.p, 0, depth + 1))
    ELSE Prefixed(t.token, ParseSimpleExpression(ctx, t.p, depth + 1))

\* Parser::ParseSimpleExpression, running in stack frame `depth`.
ParseSimpleExpression(ctx, p0, depth) ==
    IF depth > MaxDepth THEN Overflow(p0)
    ELSE SimpleAfter(ctx, ParseToken(ctx, Enter(p0, depth)), depth)

\* lhs = Expression(op, lhs, rhs), and the loop goes on.
Combined(ctx, op, lhs, r, minPriority, depth) ==
    IF r.p.crash # "none" THEN r
    ELSE BinaryLoop(ctx, r.p, Binary(op, lhs, r.expr), minPriority, depth)

\* One turn of the loop once the token t is peeked.
LoopAfter(ctx, t, lhs, minPriority, depth) ==
    IF t.p.crash # "none" THEN Parsed(lhs, t.p)
    ELSE IF Stops(GetPriority(t.token), minPriority) THEN Parsed(lhs, Rewind(t))
    ELSE Combined(ctx, t.token, lhs,
                  ParseBinaryExpression(ctx, t.p, GetPriority(t.token), depth + 1),
                  minPriority, depth)

\* The while (1) loop of ParseBinaryExpression, lhs being the tree built so far.
BinaryLoop(ctx, p, lhs, minPriority, depth) ==
    LoopAfter(ctx, ParseToken(ctx, p), lhs, minPriority, depth)

\* The loop starts from the simple expression l.
LoopFrom(ctx, l, minPriority, depth) ==
    IF l.p.crash # "none" THEN l ELSE BinaryLoop(ctx, l.p, l.expr, minPriority, depth)

\* Parser::ParseBinaryExpression, running in stack frame `depth`.
ParseBinaryExpression(ctx, p0, minPriority, depth) ==
    IF depth > MaxDepth THEN Overflow(p0)
    ELSE LoopFrom(ctx, ParseSimpleExpression(ctx, Enter(p0, depth), depth + 1),
                  minPriority, depth)

-----------------------------------------------------------------------------
(* The evaluator *)

\* The test of case 0: the token is empty or holds a character that is neither
\* a digit nor a point.
NotNumeral(token) ==
    \/ token = ""
    \/ \E i \in 1..Len(token) : ~IsDigit(CharAt(token, i)) /\ CharAt(token, i) # "."

\* What Evaluate leaves: the value, m_State, and whether it ran into undefined
\* behaviour (a value is then indeterminate, if the process lives).
Evaluated(value, state, undefined) ==
    [value |-> value, m_State |-> state, undefined |-> undefined]

\* The handler h applied to the left value x and the right value y.
Applied(h, x, y, state, undefined) ==
    Evaluated(ApplyOperator(h, x, y), state, undefined \/ OperatorUndefined(h, x, y))

\* The end of a function that returns a value is reached after the break.
FallsOff(state) == Evaluated(Garbage, state, TRUE)

RECURSIVE Evaluate(_, _, _, _, _)

\* case 2 with the argument evaluated first, e1: the other one follows.
SecondArgument(expr, e1, other, radians, order, reg) ==
    Evaluate(expr.arguments[other], e1.m_State, radians, order, reg)

BothArguments(h, e1, e2, order) ==
    IF order = "LeftToRight"
    THEN Applied(h, e1.value, e2.value, e2.m_State, e1.undefined \/ e2.undefined)
    ELSE Applied(h, e2.value, e1.value, e2.m_State, e1.undefined \/ e2.undefined)

AfterFirst(expr, e1, other, radians, order, reg) ==
    BothArguments(reg.OPERATORS[expr.token], e1,
                  SecondArgument(expr, e1, other, radians, order, reg), order)

OneArgument(h, radians, e1) ==
    Evaluated(ApplyFunction(h, radians, e1.value), e1.m_State, e1.undefined)

\* Parser::Evaluate.  reg holds FUNCTIONS and OPERATORS; order is the order in
\* which the build evaluates the two arguments of a handler call.
Evaluate(expr, state, radians, order, reg) ==
    IF Len(expr.arguments) = 2
    THEN IF expr.token \in DOMAIN reg.OPERATORS
         THEN IF order = "LeftToRight"
              THEN AfterFirst(expr, Evaluate(expr.arguments[1], state, radians, order, reg),
                              2, radians, order, reg)
              ELSE AfterFirst(expr, Evaluate(expr.arguments[2], state, radians, order, reg),
                              1, radians, order, reg)
         ELSE FallsOff("UnknownBinaryOperator")
    ELSE IF Len(expr.arguments) = 1
    THEN IF expr.token \in DOMAIN reg.FUNCTIONS
         THEN OneArgument(reg.FUNCTIONS[expr.token], radians,
                          Evaluate(expr.arguments[1], state, radians, order, reg))
         ELSE FallsOff("UnknownUnaryOperator")
    ELSE IF NotNumeral(expr.token)
         THEN Evaluated(Num(0, 1), "UnknownExpressionType", FALSE)
         ELSE Evaluated(StoLD(expr.token), state, FALSE)

\* m_State = State::Ok at the start of Get, whatever the state was.
ResetState(previous) == "Ok"

\* What a call computed: how the parse ended, and what the evaluation left.
Computed(parsed, ev) ==
    [crash |-> "none", value |-> ev.value, m_State |-> ev.m_State,
     undefined |-> ev.undefined, parse |-> parsed.p]

\* Evaluate(ParseBinaryExpression(0)): the tree is evaluated if the parse ended.
EvaluateParsed(parsed, radians, order, reg) ==
    IF parsed.p.crash # "none"
    THEN [crash |-> parsed.p.crash, value |-> Garbage, m_State |-> parsed.p.m_State,
          undefined |-> TRUE, parse |-> parsed.p]
    ELSE Computed(parsed, Evaluate(parsed.expr, parsed.p.m_State, radians, order, reg))

\* Parser::Get up to its return: lower-casing, parsing, evaluating.
Run(text, radians, previous, order, reg) ==
    EvaluateParsed(
        ParseBinaryExpression(
            [buf |-> ToLowerStr(text), TOKENS |-> reg.TOKENS, CONSTANTS_ |-> reg.CONSTANTS_],
            StartOfCall(ResetState(previous)), 0, 1),
        radians, order, reg)

-----------------------------------------------------------------------------
(* Registration *)

\* The loop of AddOperator and AddFunction: text goes in front of every entry
\* that is longer than it.
RECURSIVE InsertBeforeLonger(_, _)
InsertBeforeLonger(tokens, text) ==
    IF tokens = <<>> THEN <<>>
    ELSE (IF Len(Head(tokens)) > Len(text) THEN <<text, Head(tokens)>> ELSE <<Head(tokens)>>)
         \o InsertBeforeLonger(Tail(tokens), text)

\* unordered_map::insert: an existing key keeps its value.
MapInsert(map, key, value) ==
    IF key \in DOMAIN map THEN map
    ELSE [k \in DOMAIN map \cup {key} |-> IF k = key THEN value ELSE map[k]]

Registry(tokens, constants, functions, operators) ==
    [TOKENS |-> tokens, CONSTANTS_ |-> constants, FUNCTIONS |-> functions,
     OPERATORS |-> operators]

\* Parser::Parser: the members' default initializers.
Constructed == Registry(InitialTokens, InitialConstants, InitialFunctions, InitialOperators)

WithOperator(reg, text, handler) ==
    [reg EXCEPT !.OPERATORS = MapInsert(@, text, handler),
                !.TOKENS = InsertBeforeLonger(@, text)]

WithFunction(reg, text, handler) ==
    [reg EXCEPT !.FUNCTIONS = MapInsert(@, text, handler),
                !.TOKENS = InsertBeforeLonger(Append(@, text), text)]

WithConstant(reg, text, value) ==
    [reg EXCEPT !.CONSTANTS_ = MapInsert(@, text, ToString(value))]

\* main() up to its loop: a Parser with the function "exp" added.
HostSetup == WithFunction(Constructed, "exp", "exp")

\* What the host registers in the runs explored.
OperatorSymbols == {"#", "nand"}

FunctionSymbols == {"s", "exp"}

ConstantSymbols == {"s"}

ConstantValues == {Num(3, 2)}

Current == Registry(TOKENS, CONSTANTS_, FUNCTIONS, OPERATORS)

-----------------------------------------------------------------------------
(* Input lines *)

DigitNumerals == {NatStr(i) : i \in 0..MaxNum}

Numerals == DigitNumerals \cup {"1.5"}

BinaryOps == {"+", "-", "*", "/", "%", "^"}

\* a op1 b op2 c and (a op1 b) op2 c where op2 binds tighter than op1, and a^b^c.
\* The precedence level the specification gives each built-in operator.
Level(op) == IF op \in {"+", "-"} THEN 1 ELSE IF op \in {"*", "/"} THEN 2 ELSE 3

PrecedencePairs == {q \in BinaryOps \X BinaryOps : Level(q[2]) > Level(q[1])}

ChainInputs ==
    UNION {{a \o o[1] \o b \o o[2] \o c :
                a \in Numerals, b \in Numerals, c \in Numerals} :
           o \in PrecedencePairs \cup {<<"^", "^">>}}

GroupedInputs ==
    UNION {{"(" \o a \o o[1] \o b \o ")" \o o[2] \o c :
                a \in Numerals, b \in Numerals, c \in Numerals} :
           o \in PrecedencePairs}

EvalInputs == ChainInputs \cup GroupedInputs \cup {"2+3*4", "(2+3)*4", "2^3^2"}

\* Lines the grammar derives from the built-in symbols.
WellFormedInputs ==
    Numerals
    \cup {"pi", "e", "2+3*4", "(2+3)*4", "2^3^2", "sin(pi/2)", "SIN(90)", " 2 + 3 ",
          "-(1.5)", "((2))", "!3", "5.5%2", "2--3", "sqrt(abs(-4))", "1/0", "5%0"}
    \cup {a \o o \o b : a \in DigitNumerals, b \in DigitNumerals, o \in BinaryOps}

\* Lines the grammar does not derive, and lines that use registered symbols.
IllFormedInputs ==
    {"", "1.", "1 @ 2", "@", "3!", "1.2.3", "2 pi", "(2e)", "1+2e", ")2", "2+",
     "(", "(2", "1+@", "(@)", "-@", "2 3", "2#3", "2nand3", "sin(0)", "s(0)", ")2+@",
     "2)", "()", "exp(1)", "s"}

\* Lines a host passes: every ill-formed line, and the well-formed samples.
HostInputs ==
    IllFormedInputs
    \cup {"5%0", "7", "1.5", "pi", "2+3*4", "(2+3)*4", "2^3^2", "sin(pi/2)", "SIN(90)", " 2 + 3 ",
          "!3", "5.5%2", "1/0"}

\* Lines passed in earlier calls: one per way a call can end.
PriorInputs == {"7", "1 @ 2", "1.", ")2"}

-----------------------------------------------------------------------------
(* The state machine *)

NotCalled ==
    [called |-> FALSE, rewinds |-> {}, rejected |-> FALSE, depth |-> 0,
     undefined |-> FALSE, outside |-> FALSE, before |-> "Ok"]

NoFirst ==
    [taken |-> FALSE, input |-> "", radians |-> FALSE, m_State |-> "Ok", result |-> NoValue,
     undefined |-> FALSE, outside |-> FALSE]

\* The state after construction, for a registry reg and a set of pools.  m_Input
\* and m_Radians have no initializer; Get writes both before anything reads them.
InitWith(regs, pools) ==
    /\ \E reg \in regs :
          /\ TOKENS = reg.TOKENS
          /\ CONSTANTS_ = reg.CONSTANTS_
          /\ FUNCTIONS = reg.FUNCTIONS
          /\ OPERATORS = reg.OPERATORS
    /\ m_State = "Ok"
    /\ m_Input = "uninitialized"
    /\ m_Radians = FALSE
    /\ pool \in pools
    /\ argOrder \in {"LeftToRight", "RightToLeft"}
    /\ input = ""
    /\ result = NoValue
    /\ crash = "none"
    /\ trace = NotCalled
    /\ first = NoFirst
    /\ adds = 0

\* The ways a call that computed `out` can end: the state and value it leaves,
\* or the way the process dies.  Undefined behaviour may kill the process; a
\* read outside the buffer may also leave any state.
Endings(out) ==
    IF out.crash = "StackOverflow"
    THEN {[crash |-> "StackOverflow", m_State |-> out.m_State, value |-> Garbage]}
    ELSE IF out.crash = "OutOfBounds"
    THEN {[crash |-> "OutOfBounds", m_State |-> out.m_State, value |-> Garbage]}
         \cup {[crash |-> "none", m_State |-> s, value |-> Garbage] : s \in States}
    ELSE IF out.undefined
    THEN {[crash |-> "Trap", m_State |-> out.m_State, value |-> Garbage],
          [crash |-> "none", m_State |-> out.m_State, value |-> out.value]}
    ELSE {[crash |-> "none", m_State |-> out.m_State, value |-> out.value]}

\* Each ending with the record of what the call did.
Outcomes(out, previous) ==
    {[crash |-> e.crash, m_State |-> e.m_State, value |-> e.value,
      trace |-> [called |-> TRUE, rewinds |-> out.parse.rewinds,
                 rejected |-> out.parse.rejected, depth |-> out.parse.depth,
                 undefined |-> out.undefined, outside |-> out.crash = "OutOfBounds",
                 before |-> previous]] : e \in Endings(out)}

\* long double Parser::Get(std::string input, bool radians)
Get(text, radians) ==
    /\ crash = "none"
    /\ \E o \in Outcomes(Run(text, radians, m_State, argOrder, Current), m_State) :
          /\ crash' = o.crash
          /\ m_State' = o.m_State
          /\ result' = o.value
          /\ m_Input' = IF o.crash = "none" THEN "nullptr" ELSE "in the buffer"
          /\ trace' = o.trace
          /\ first' = IF ~first.taken /\ o.crash = "none"
                      THEN [taken |-> TRUE, input |-> text, radians |-> radians,
                            m_State |-> o.m_State, result |-> o.value,
                            undefined |-> o.trace.undefined, outside |-> o.trace.outside]
                      ELSE first
    /\ input' = text
    /\ m_Radians' = radians
    /\ UNCHANGED <<TOKENS, CONSTANTS_, FUNCTIONS, OPERATORS, pool, argOrder, adds>>

\* A registration: the registry changes, and with it what the record of the
\* last call and of the first call refer to, so both are dropped.
Install(reg) ==
    /\ TOKENS' = reg.TOKENS
    /\ CONSTANTS_' = reg.CONSTANTS_
    /\ FUNCTIONS' = reg.FUNCTIONS
    /\ OPERATORS' = reg.OPERATORS
    /\ adds' = adds + 1
    /\ first' = NoFirst
    /\ trace' = NotCalled
    /\ input' = ""
    /\ result' = NoValue
    /\ UNCHANGED <<m_State, m_Input, m_Radians, pool, argOrder, crash>>

\* void Parser::AddOperator(std::string_view text, handler)
AddOperator(text, handler) ==
    /\ crash = "none"
    /\ adds < MaxAdds
    /\ Install(WithOperator(Current, text, handler))

\* void Parser::AddFunction(std::string_view text, handler)
AddFunction(text, handler) ==
    /\ crash = "none"
    /\ adds < MaxAdds
    /\ Install(WithFunction(Current, text, handler))

\* void Parser::AddConstant(std::string_view text, long double value)
AddConstant(text, value) ==
    /\ crash = "none"
    /\ adds < MaxAdds
    /\ Install(WithConstant(Current, text, value))

Call == \E text \in pool, radians \in BOOLEAN : Get(text, radians)

\* A freshly constructed parser that the host extends and calls in any order.
Init == InitWith({Constructed}, {{x} : x \in HostInputs})

Next ==
    \/ Call
    \/ \E text \in OperatorSymbols : AddOperator(text, "h2")
    \/ \E text \in FunctionSymbols : AddFunction(text, "h1")
    \/ \E text \in ConstantSymbols, value \in ConstantValues : AddConstant(text, value)

Spec == Init /\ [][Next]_vars

\* A constructed parser evaluating one line of the operator-chain family.
InitEval == InitWith({Constructed}, {{x} : x \in EvalInputs})

NextEval == Call

SpecEval == InitEval /\ [][NextEval]_vars

\* The host's loop: the parser as main() sets it up is called again and again
\* with a line under test and a line passed earlier.
InitCalls ==
    InitWith({HostSetup},
             {{x, y} : x \in WellFormedInputs \cup IllFormedInputs, y \in PriorInputs})

NextCalls == Call

SpecCalls == InitCalls /\ [][NextCalls]_vars

-----------------------------------------------------------------------------
(* Reading a line of the operator-chain family back into its parts *)

\* x is a op1 b op2 c (grouped: (a op1 b) op2 c) for numerals a, b, c and
\* built-in operators op1, op2: the parts found from the numerals' extents.
Parts(x) ==
    LET g == IF CharAt(x, 1) = "(" THEN 1 ELSE 0
        e1 == NumberEnd(x, 1 + g)
        e2 == NumberEnd(x, e1 + 1)
        e3 == NumberEnd(x, e2 + 1 + g)
    IN  [grouped |-> g = 1,
         shaped |-> /\ e1 > 1 + g /\ e2 > e1 + 1 /\ e3 > e2 + 1 + g /\ e3 = Len(x) + 1
                    /\ (g = 1 => CharAt(x, e2) = ")"),
         a |-> SubSeq(x, 1 + g, e1 - 1), op1 |-> CharAt(x, e1),
         b |-> SubSeq(x, e1 + 1, e2 - 1), op2 |-> CharAt(x, e2 + g),
         c |-> SubSeq(x, e2 + 1 + g, e3 - 1)]

\* A line of the family whose second operator binds tighter than its first.
IsPrecedenceLine(x) ==
    /\ Parts(x).shaped
    /\ Parts(x).a \in Numerals \cup {"3", "4"}
    /\ Parts(x).b \in Numerals \cup {"3", "4"}
    /\ Parts(x).c \in Numerals \cup {"3", "4"}
    /\ Parts(x).op1 \in BinaryOps
    /\ Parts(x).op2 \in BinaryOps
    /\ Level(Parts(x).op2) > Level(Parts(x).op1)

\* a op1 (b op2 c), or (a op1 b) op2 c for a grouped line.
Grouping(q) ==
    IF q.grouped
    THEN ApplyOperator(q.op2, ApplyOperator(q.op1, StoLD(q.a), StoLD(q.b)), StoLD(q.c))
    ELSE ApplyOperator(q.op1, StoLD(q.a), ApplyOperator(q.op2, StoLD(q.b), StoLD(q.c)))

\* The line takes a remainder by a number whose integer part is 0.
RemainderByZero(q) == q.op2 = "%" /\ Trunc(StoLD(q.c)) = 0

Returned == trace.called /\ crash = "none"

-----------------------------------------------------------------------------
(* Claims *)

\* C1: for all numerals a, b, c and built-in operators op1, op2 with
\* precedence(op2) > precedence(op1), Get("a op1 b op2 c") returns a op1 (b op2 c)
\* and Get("(a op1 b) op2 c") returns (a op1 b) op2 c, both with state Ok.
C1_Precedence ==
    (trace.called /\ IsPrecedenceLine(input)) =>
        /\ crash = "none"
        /\ m_State = "Ok"
        /\ result = Grouping(Parts(input))

\* The same holds of every such line that takes no remainder by zero, where
\* (long int)b % (long int)c is not defined: the levels themselves are applied
\* as the claim says.
PrecedenceWhereDefined ==
    (trace.called /\ IsPrecedenceLine(input) /\ ~RemainderByZero(Parts(input))) =>
        /\ crash = "none"
        /\ m_State = "Ok"
        /\ result = Grouping(Parts(input))

\* C2: Get("2^3^2", true) returns 512 with state Ok.
C2_PowerChain512 ==
    (trace.called /\ input = "2^3^2") =>
        crash = "none" /\ m_State = "Ok" /\ result = Num(512, 1)

\* C2, with the value left-associative chaining gives: Get("2^3^2", true)
\* returns 64 with state Ok, the chained '^' being combined as (2^3)^2.
C2_PowerChain64 ==
    (trace.called /\ input = "2^3^2") =>
        crash = "none" /\ m_State = "Ok" /\ result = Num(64, 1)

\* C2: "2^3^2" was evaluated in radian mode and returned (2^3)^2.
C2_Witness == Returned /\ input = "2^3^2" /\ m_Radians /\ result = Pow(Pow(Num(2, 1), Num(3, 1)), Num(2, 1))

\* C3: whenever the tokenizer rejected a lexeme during a call (and the call's
\* behaviour was defined), GetState() after the call is InvalidSyntax.
C3_RejectionIsInvalidSyntax ==
    (Returned /\ trace.rejected /\ ~trace.undefined) => m_State = "InvalidSyntax"

\* C4: after AddOperator registered the symbol s with handler h, Get("2 s 3")
\* returns h(2, 3) with state Ok.
C4_AddedOperatorDispatched ==
    \A s \in OperatorSymbols :
        (Returned /\ s \in DOMAIN OPERATORS /\ input = "2" \o s \o "3") =>
            /\ m_State = "Ok"
            /\ result = ApplyOperator(OPERATORS[s], Num(2, 1), Num(3, 1))

\* C5: for a numeral n, Get("n!") returns the factorial of n with state Ok.
C5_PostfixFactorial ==
    \A n \in 0..9 :
        (Returned /\ input = NatStr(n) \o "!") =>
            m_State = "Ok" /\ result = Num(Fact(n), 1)

\* C6: with an unchanged registry the outcome of Get(x, mode) does not depend
\* on earlier calls: a well-formed line ends with state Ok whatever the calls
\* before it left behind, and a line evaluated again ends in the state (and, if
\* well-formed, with the result) of its first evaluation.
C6_CallsIndependent ==
    /\ (trace.called /\ input \in WellFormedInputs) => crash = "none" /\ m_State = "Ok"
    /\ (Returned /\ first.taken /\ first.input = input /\ first.radians = m_Radians) =>
            /\ m_State = first.m_State
            /\ input \in WellFormedInputs => result = first.result

\* The same holds of every call whose behaviour is defined (no remainder by
\* zero, no read outside the input text): m_State is reset at the start of Get.
IndependentWhereDefined ==
    Returned =>
        /\ (input \in WellFormedInputs /\ ~trace.undefined) => m_State = "Ok"
        /\ (first.taken /\ first.input = input /\ first.radians = m_Radians
                /\ ~trace.outside /\ ~first.outside) =>
              /\ m_State = first.m_State
              /\ (~trace.undefined /\ ~first.undefined) => result = first.result

\* C7: Get terminates on every line: the recursion of ParseSimpleExpression and
\* ParseBinaryExpression never exhausts the stack, its depth being bounded by
\* the line's nesting and operator chains (two frames per character at most).
C7_RecursionBounded ==
    trace.called => crash # "StackOverflow" /\ trace.depth <= 2 * Len(input) + 2

\* C8: every un-consume step of ParseBinaryExpression leaves the cursor on the
\* first character of the token it peeked, inside the input text.
C8_RewindToTokenStart ==
    trace.called =>
        \A r \in trace.rewinds : r.after = r.start /\ r.after >= 1 /\ r.after <= Len(input) + 1

\* C9: the token-matching list, scanned from its last entry backward, is ordered
\* longest symbol first, so "sin" is tokenized as "sin" whatever was registered.
C9_LongestFirst ==
    /\ \A i \in 1..Len(TOKENS), j \in 1..Len(TOKENS) :
            i < j => Len(TOKENS[i]) <= Len(TOKENS[j])
    /\ (Returned /\ input = "sin(0)") =>
            m_State = "Ok" /\ result = ApplyFunction("sin", m_Radians, Num(0, 1))

\* A run of digits and points in x holds two points or more.
TwoPoints(x) ==
    \E i \in 1..Len(x), j \in 1..Len(x) :
        /\ i < j
        /\ CharAt(x, i) = "." /\ CharAt(x, j) = "."
        /\ \A k \in i..j : IsDigit(CharAt(x, k)) \/ CharAt(x, k) = "."
        /\ \E k \in 1..i : IsDigit(CharAt(x, k)) /\ NumberEnd(x, k) > j

\* C10: a line whose digit and point run holds two or more points does not end
\* Ok: its leaf is rejected with UnknownExpressionType and value 0.
C10_TwoPointsRejected ==
    (Returned /\ TwoPoints(input)) =>
        m_State = "UnknownExpressionType" /\ result = Num(0, 1)

=============================================================================
